---- MODULE Spec2Model ----
(***************************************************************************)
(* State-machine model of qr_generator.py: the QRCodeGenerator constructor *)
(* with its output-directory probe, the generate_qr_code pipeline with its *)
(* exception handlers, and main with its exit codes.                       *)
(*                                                                         *)
(* Text that the program inspects character by character (data, file       *)
(* names, paths) is a sequence of one-character strings.  Option names     *)
(* (error-correction level, drawer style, colour mask, colour) are strings *)
(* that the program only case-folds and looks up.                          *)
(***************************************************************************)
EXTENDS Naturals, Sequences, FiniteSets

VARIABLES
    pc,           \* position of the running program
    caller,       \* "none" | "main" | "api" | "synth": who drives the generator
    args,         \* the argparse Namespace of main (a record), NoArgs before parsing
    output_dir,   \* self.output_dir
    dir_exists,   \* os.path.exists(self.output_dir)
    files,        \* the paths of the files that exist
    request,      \* the parameters of the running generate_qr_code call
    steps,        \* the pipeline steps generate_qr_code has started, in order
    img,          \* the image _create_qr_image returned, NoImage before that
    output_path,  \* the local output_path of generate_qr_code
    saved_to,     \* the paths img.save was asked to write, in order
    returned,     \* the value generate_qr_code returned, None before that
    raised_in,    \* where the first exception arose: a step of the constructor,
                  \* "entry" or a step of generate_qr_code, or a place in main
    exc,          \* the exception that escaped the constructor or generate_qr_code
    exit_code,    \* the exit status of the process run by main, None while running
    printed       \* what main printed last: "none" | "success" | "input" | ...

vars == <<pc, caller, args, output_dir, dir_exists, files, request, steps, img,
          output_path, saved_to, returned, raised_in, exc, exit_code, printed>>

\* An Optional value is <<>> for None and <<v>> for the value v.
None == <<>>
Some(v) == <<v>>

(***************************************************************************)
(* Exceptions.  The module defines its own PermissionError (line 41), so   *)
(* inside the module the name PermissionError denotes that class and the   *)
(* builtin one, which the operating system raises, is a different class.   *)
(***************************************************************************)
BaseException == "BaseException"
Exception == "Exception"
KeyboardInterrupt == "KeyboardInterrupt"
OSError == "OSError"
BuiltinPermissionError == "builtins.PermissionError"
ValueError == "ValueError"
KeyError == "KeyError"
DataOverflowError == "qrcode.exceptions.DataOverflowError"
QRGenerationError == "QRGenerationError"
InputValidationError == "InputValidationError"
FileSystemError == "FileSystemError"
PermissionError == "qr_generator.PermissionError"

\* The direct base class of each exception class.
BaseOf(cls) ==
    CASE cls = Exception -> BaseException
      [] cls = KeyboardInterrupt -> BaseException
      [] cls = OSError -> Exception
      [] cls = BuiltinPermissionError -> OSError
      [] cls = ValueError -> Exception
      [] cls = KeyError -> Exception
      [] cls = DataOverflowError -> Exception
      [] cls = QRGenerationError -> Exception
      [] cls = InputValidationError -> QRGenerationError
      [] cls = FileSystemError -> QRGenerationError
      [] cls = PermissionError -> FileSystemError
      [] OTHER -> BaseException

RECURSIVE IsSubclass(_, _)
IsSubclass(cls, base) ==
    IF cls = base THEN TRUE
    ELSE IF cls = BaseException THEN FALSE
    ELSE IsSubclass(BaseOf(cls), base)

\* An exception object: its class, its message (the wrapping prefixes first),
\* the class of the exception it was raised from (__cause__) and the class at
\* the end of that chain, which is its own class when it has no cause.
NoExc == [type |-> "none", msg |-> <<>>, cause |-> "none", root |-> "none"]
Raise(cls, msg) == [type |-> cls, msg |-> msg, cause |-> "none", root |-> cls]
RaiseFrom(cls, msg, e) ==
    [type |-> cls, msg |-> msg \o e.msg, cause |-> e.type, root |-> e.root]
isinstance(e, cls) == e.type # "none" /\ IsSubclass(e.type, cls)

(***************************************************************************)
(* Characters and text.                                                    *)
(***************************************************************************)
Letters == {"a", "b", "q", "r", "p", "n", "g", "Z"}
Digits == {"7"}
Whitespace == {" ", "\t"}

\* str.isalnum of one character
isalnum(c) == c \in Letters \cup Digits

\* str.strip(): leading and trailing whitespace removed
RECURSIVE lstrip(_)
lstrip(s) == IF s # <<>> /\ Head(s) \in Whitespace THEN lstrip(Tail(s)) ELSE s

RECURSIVE rstrip(_)
rstrip(s) ==
    IF s # <<>> /\ s[Len(s)] \in Whitespace
    THEN rstrip(SubSeq(s, 1, Len(s) - 1))
    ELSE s

strip(s) == rstrip(lstrip(s))

\* s[:n]
Prefix(s, n) == SubSeq(s, 1, IF Len(s) < n THEN Len(s) ELSE n)

\* posixpath.join(a, p)
join(a, p) ==
    IF p # <<>> /\ Head(p) = "/" THEN p
    ELSE IF a = <<>> \/ a[Len(a)] = "/" THEN a \o p
    ELSE a \o <<"/">> \o p

(***************************************************************************)
(* _generate_filename                                                      *)
(***************************************************************************)
FilenameLimit == 50

\* the character the sanitising comprehension yields for c
SanitizeChar(c) == IF isalnum(c) \/ c \in {"-", "_"} THEN c ELSE "_"

Sanitize(data) == [i \in 1..Len(data) |-> SanitizeChar(data[i])]

\* no limit on the length
TruncateNone(sanitized) == sanitized

Truncate(sanitized) == Prefix(sanitized, FilenameLimit)

_generate_filename(data, extension) ==
    <<"q", "r", "_">> \o Truncate(Sanitize(data)) \o <<".">> \o extension

png == <<"p", "n", "g">>

(***************************************************************************)
(* Option names and the lookup tables.  A table is the sequence of the     *)
(* dict's (key, value) pairs in insertion order.                           *)
(***************************************************************************)
\* str.lower() on the option names the model feeds in
lower(s) ==
    CASE s = "Circle" -> "circle"
      [] s = "SOLID" -> "solid"
      [] s = "Red" -> "red"
      [] s = "WHITE" -> "white"
      [] OTHER -> s

\* str.upper() on the option names the model feeds in
upper(s) ==
    CASE s = "q" -> "Q"
      [] s = "x" -> "X"
      [] s = "y" -> "Y"
      [] OTHER -> s

ERROR_CORRECTION_MAP ==
    << <<"L", "ERROR_CORRECT_L">>, <<"M", "ERROR_CORRECT_M">>,
       <<"Q", "ERROR_CORRECT_Q">>, <<"H", "ERROR_CORRECT_H">> >>

MODULE_DRAWERS ==
    << <<"square", "SquareModuleDrawer">>, <<"rounded", "RoundedModuleDrawer">>,
       <<"gapped", "GappedSquareModuleDrawer">>, <<"circle", "CircleModuleDrawer">>,
       <<"vertical", "VerticalBarsDrawer">>, <<"horizontal", "HorizontalBarsDrawer">> >>

COLOR_MASKS ==
    << <<"radial", "RadialGradiantColorMask">>, <<"square", "SquareGradiantColorMask">>,
       <<"horizontal", "HorizontalGradiantColorMask">>,
       <<"vertical", "VerticalGradiantColorMask">>, <<"solid", "SolidFillColorMask">> >>

\* list(table.keys())
keys(table) == [i \in 1..Len(table) |-> table[i][1]]

\* key in table
Has(table, key) == \E i \in 1..Len(table) : table[i][1] = key

\* table[key], for a key the table has
Get(table, key) == table[CHOOSE i \in 1..Len(table) : table[i][1] = key][2]

(***************************************************************************)
(* _parse_color                                                            *)
(***************************************************************************)
_parse_color(color_str) ==
    LET color_lower == lower(color_str)
    IN  CASE color_lower = "black" -> <<0, 0, 0>>
          [] color_lower = "white" -> <<255, 255, 255>>
          [] color_lower = "red" -> <<255, 0, 0>>
          [] color_lower = "green" -> <<0, 255, 0>>
          [] color_lower = "blue" -> <<0, 0, 255>>
          [] OTHER -> <<0, 0, 0>>

(***************************************************************************)
(* _validate_input_data and the error-correction lookup: the exception     *)
(* each raises, NoExc when it passes.                                      *)
(***************************************************************************)
_validate_input_data(data) ==
    IF strip(data) = <<>>
    THEN Raise(InputValidationError, <<"Input data cannot be empty">>)
    ELSE NoExc

\* lines 217-222
ErrorCorrectionLookup(error_correction) ==
    IF Has(ERROR_CORRECTION_MAP, upper(error_correction))
    THEN NoExc
    ELSE Raise(InputValidationError,
               <<"Invalid error correction level", error_correction, "Must be one of">>
                   \o keys(ERROR_CORRECTION_MAP))

\* the two checks in the other order
ValidateLevelFirst(data, error_correction) ==
    IF ErrorCorrectionLookup(error_correction) # NoExc
    THEN ErrorCorrectionLookup(error_correction)
    ELSE _validate_input_data(data)

\* lines 213-222: the data check, then the level lookup
Validate(data, error_correction) ==
    IF _validate_input_data(data) # NoExc
    THEN _validate_input_data(data)
    ELSE ErrorCorrectionLookup(error_correction)

(***************************************************************************)
(* The except clauses.  Each operator maps the exception raised inside a  *)
(* try block to the exception that leaves it.                              *)
(***************************************************************************)
\* _validate_and_create_output_dir, lines 131-139 (the first clause's message
\* names the directory only, the other two append str(e))
OutputDirExcept(e) ==
    IF isinstance(e, PermissionError)
    THEN [type |-> PermissionError,
          msg |-> <<"Insufficient permissions for directory">>,
          cause |-> e.type, root |-> e.root]
    ELSE IF isinstance(e, OSError)
    THEN RaiseFrom(FileSystemError, <<"Filesystem error">>, e)
    ELSE IF isinstance(e, Exception)
    THEN RaiseFrom(QRGenerationError, <<"Unexpected error">>, e)
    ELSE e

\* _create_qr_image, lines 320-322
CreateImageExcept(e) ==
    IF isinstance(e, Exception)
    THEN RaiseFrom(QRGenerationError, <<"Image creation failed">>, e)
    ELSE e

\* the last clause as a bare except
SaveImageExceptBare(e) ==
    IF isinstance(e, PermissionError)
    THEN [type |-> PermissionError, msg |-> <<"Cannot save: permission denied">>,
          cause |-> e.type, root |-> e.root]
    ELSE IF isinstance(e, OSError)
    THEN RaiseFrom(FileSystemError, <<"Filesystem error saving image">>, e)
    ELSE RaiseFrom(QRGenerationError, <<"Failed to save image">>, e)

\* _save_image, lines 349-357 (the first clause's message names the path
\* only, the other two append str(e))
SaveImageExcept(e) ==
    IF isinstance(e, PermissionError)
    THEN [type |-> PermissionError, msg |-> <<"Cannot save: permission denied">>,
          cause |-> e.type, root |-> e.root]
    ELSE IF isinstance(e, OSError)
    THEN RaiseFrom(FileSystemError, <<"Filesystem error saving image">>, e)
    ELSE IF isinstance(e, Exception)
    THEN RaiseFrom(QRGenerationError, <<"Failed to save image">>, e)
    ELSE e

\* without the DataOverflowError clause
GenerateExceptNoOverflow(e) ==
    IF isinstance(e, InputValidationError) THEN e
    ELSE IF isinstance(e, KeyboardInterrupt) THEN e
    ELSE IF isinstance(e, Exception)
    THEN RaiseFrom(QRGenerationError, <<"QR generation failed">>, e)
    ELSE e

\* generate_qr_code, lines 255-266
GenerateExcept(e) ==
    IF isinstance(e, InputValidationError) THEN e
    ELSE IF isinstance(e, DataOverflowError)
    THEN [type |-> InputValidationError, msg |-> <<"Data too large for QR code">>,
          cause |-> e.type, root |-> e.root]
    ELSE IF isinstance(e, KeyboardInterrupt) THEN e
    ELSE IF isinstance(e, Exception)
    THEN RaiseFrom(QRGenerationError, <<"QR generation failed">>, e)
    ELSE e

(***************************************************************************)
(* _create_qr_image: the image it returns, or the exception that leaves    *)
(* it, given what qr.make_image does (NoExc when it succeeds).             *)
(***************************************************************************)
NoImage == [kind |-> "none"]

\* lines 284-290
DrawerLookup(drawer_style) ==
    IF Has(MODULE_DRAWERS, lower(drawer_style))
    THEN NoExc
    ELSE Raise(InputValidationError,
               <<"Invalid drawer style", drawer_style, "Must be one of">>
                   \o keys(MODULE_DRAWERS))

\* lines 293-306
ColorMaskLookup(color_mask) ==
    IF lower(color_mask) = "solid" \/ Has(COLOR_MASKS, lower(color_mask))
    THEN NoExc
    ELSE Raise(InputValidationError,
               <<"Invalid color mask", color_mask, "Must be one of">>
                   \o keys(COLOR_MASKS))

\* the colour mask object of lines 294-301
ColorMaskObj(r) ==
    IF lower(r.color_mask) = "solid"
    THEN [class |-> "SolidFillColorMask",
          back_color |-> _parse_color(r.background_color),
          front_color |-> _parse_color(r.foreground_color)]
    ELSE [class |-> Get(COLOR_MASKS, lower(r.color_mask)),
          back_color |-> <<>>, front_color |-> <<>>]

\* the exception raised inside the try block of _create_qr_image
CreateImageRaises(r, make_image) ==
    IF r.styled /\ DrawerLookup(r.drawer_style) # NoExc THEN DrawerLookup(r.drawer_style)
    ELSE IF r.styled /\ ColorMaskLookup(r.color_mask) # NoExc
    THEN ColorMaskLookup(r.color_mask)
    ELSE make_image

\* the image of lines 308-319
CreateImageReturns(r) ==
    IF r.styled
    THEN [kind |-> "styled",
          module_drawer |-> Get(MODULE_DRAWERS, lower(r.drawer_style)),
          color_mask |-> ColorMaskObj(r)]
    ELSE [kind |-> "plain",
          fill_color |-> _parse_color(r.foreground_color),
          back_color |-> _parse_color(r.background_color)]

(***************************************************************************)
(* Inputs.                                                                 *)
(***************************************************************************)
MaxRepeat == 27
MaxBlockLen == 2

RECURSIVE Rep(_, _)
Rep(block, n) == IF n = 0 THEN <<>> ELSE block \o Rep(block, n - 1)

\* the sequences over S of length 1..n
RECURSIVE Blocks(_, _)
Blocks(S, n) ==
    IF n = 0 THEN {}
    ELSE Blocks(S, n - 1) \cup {b \in [1..n -> S] : TRUE}

SynthAlphabet == {"a", "Z", "7", "-", "_", ".", "/", " "}
SynthData == {Rep(b, n) : b \in Blocks(SynthAlphabet, MaxBlockLen), n \in 0..MaxRepeat}
Extensions == {png, <<"j", "p", "g">>}

QrCodesDir == <<"q", "r", "_", "c", "o", "d", "e", "s">>
OutputDirs == {QrCodesDir, <<"o", "/">>}

LongData == Rep(<<"a", ".">>, MaxRepeat)
DataInputs == {<<>>, <<" ", "\t">>, <<"a", "/", "b">>, LongData}
Filenames == {None, Some(<<>>), Some(<<"k", ".", "p", "n", "g">>), Some(<<"/", "t">>)}
Versions == {None, Some(1), Some(40)}

Requests ==
    [data : DataInputs, filename : Filenames, version : Versions,
     error_correction : {"L", "M", "Q", "H", "q", "x"},
     box_size : {10}, border : {4}, styled : BOOLEAN,
     drawer_style : {"rounded", "Circle", "triangle"},
     color_mask : {"radial", "SOLID", "plaid"},
     foreground_color : {"black", "Red"}, background_color : {"white"}]

NoRequest ==
    [data |-> <<>>, filename |-> None, version |-> None, error_correction |-> "L",
     box_size |-> 10, border |-> 4, styled |-> FALSE, drawer_style |-> "rounded",
     color_mask |-> "radial", foreground_color |-> "black",
     background_color |-> "white"]

\* what a call of the operating system or of a library can raise
Raised(classes) == {Raise(cls, <<cls>>) : cls \in classes}
OsOutcomes == {NoExc} \cup Raised({BuiltinPermissionError, OSError, ValueError, KeyboardInterrupt})
LoggerOutcomes == {NoExc} \cup Raised({BuiltinPermissionError, OSError, KeyboardInterrupt})
EncoderOutcomes == {NoExc} \cup Raised({DataOverflowError, ValueError, KeyboardInterrupt})
RenderOutcomes == {NoExc} \cup Raised({ValueError, KeyboardInterrupt})
InterruptOutcomes == {NoExc} \cup Raised({KeyboardInterrupt})

(***************************************************************************)
(* The state machine.                                                      *)
(***************************************************************************)
Unset == "<unset>"

NoArgs ==
    [data |-> None, interactive |-> FALSE, filename |-> None,
     output_dir |-> QrCodesDir,
     version |-> None, error_correction |-> "L", box_size |-> 10, border |-> 4,
     styled |-> FALSE, drawer |-> "rounded", color |-> "radial",
     foreground |-> "black", background |-> "white",
     drawer_style |-> Unset, color_mask |-> Unset,
     foreground_color |-> Unset, background_color |-> Unset]

Init ==
    /\ pc = "start"
    /\ caller = "none"
    /\ args = NoArgs
    /\ output_dir = <<>>
    /\ dir_exists \in BOOLEAN
    /\ files = {}
    /\ request = NoRequest
    /\ steps = <<>>
    /\ img = NoImage
    /\ output_path = <<>>
    /\ saved_to = <<>>
    /\ returned = None
    /\ raised_in = "none"
    /\ exc = NoExc
    /\ exit_code = None
    /\ printed = "none"

\* where control goes when e leaves the constructor or generate_qr_code
Leave(who, e) ==
    /\ exc' = e
    /\ pc' = IF who = "main" THEN "main_except" ELSE "done"

\* bool(x) of an Optional string: None and "" are falsy
truthy(opt) == opt # None /\ opt[1] # <<>>

(***************************************************************************)
(* The constructor.                                                        *)
(***************************************************************************)
\* line 100: the log file, opened in the working directory
qr_generator_log ==
    <<"q", "r", "_", "g", "e", "n", "e", "r", "a", "t", "o", "r", ".", "l", "o", "g">>

\* __init__, lines 87-88: output_dir is stored and the logger is set up;
\* FileHandler creates the log file (a failure of _setup_logger is outside
\* every try block; an interrupt can arrive before or after the file exists)
__init__(who, od) ==
    /\ caller' = who
    /\ output_dir' = od
    /\ \E logger \in LoggerOutcomes :
          IF logger = NoExc
          THEN /\ files' = files \cup {qr_generator_log}
               /\ pc' = "ctor_makedirs"
               /\ UNCHANGED <<exc, raised_in>>
          ELSE /\ raised_in' = "init"
               /\ Leave(who, logger)
               /\ IF isinstance(logger, KeyboardInterrupt)
                  THEN files' \in {files, files \cup {qr_generator_log}}
                  ELSE UNCHANGED files
    /\ UNCHANGED <<dir_exists, request, steps, img, output_path,
                   saved_to, returned, exit_code, printed>>

\* a library client constructs QRCodeGenerator(output_dir)
ApiConstruct ==
    /\ pc = "start"
    /\ \E od \in OutputDirs : __init__("api", od)
    /\ UNCHANGED args

\* lines 120-123: the directory is created when it does not exist; the
\* logger.info of line 123 runs after os.makedirs has returned, and an
\* interrupt can arrive there (one at line 121 leaves no directory, as an
\* interrupted os.makedirs does)
MakeDirs ==
    /\ pc = "ctor_makedirs"
    /\ IF dir_exists
       THEN pc' = "ctor_probe_open" /\ UNCHANGED <<dir_exists, exc, raised_in>>
       ELSE \E makedirs \in OsOutcomes, info \in InterruptOutcomes :
               IF makedirs # NoExc
               THEN /\ raised_in' = "makedirs"
                    /\ Leave(caller, OutputDirExcept(makedirs))
                    /\ UNCHANGED dir_exists
               ELSE /\ dir_exists' = TRUE
                    /\ IF info = NoExc
                       THEN pc' = "ctor_probe_open" /\ UNCHANGED <<exc, raised_in>>
                       ELSE /\ raised_in' = "makedirs"
                            /\ Leave(caller, OutputDirExcept(info))
    /\ UNCHANGED <<caller, args, output_dir, files, request, steps, img,
                   output_path, saved_to, returned, exit_code, printed>>

\* line 126
test_file ==
    join(output_dir, <<".", "p", "e", "r", "m", "i", "s", "s", "i", "o", "n",
                       "_", "t", "e", "s", "t">>)

\* line 127: open(test_file, "w") creates the probe file; an interrupt
\* can arrive before the file is created or as open returns
ProbeOpen ==
    /\ pc = "ctor_probe_open"
    /\ \E open \in OsOutcomes :
          IF open = NoExc
          THEN /\ files' = files \cup {test_file}
               /\ pc' = "ctor_probe_write"
               /\ UNCHANGED <<exc, raised_in>>
          ELSE /\ raised_in' = "probe_open"
               /\ Leave(caller, OutputDirExcept(open))
               /\ IF isinstance(open, KeyboardInterrupt)
                  THEN files' \in {files, files \cup {test_file}}
                  ELSE UNCHANGED files
    /\ UNCHANGED <<caller, args, output_dir, dir_exists, request, steps, img,
                   output_path, saved_to, returned, exit_code, printed>>

\* line 128 and the end of the with block: the write and the close
ProbeWrite ==
    /\ pc = "ctor_probe_write"
    /\ \E write \in OsOutcomes :
          IF write = NoExc
          THEN pc' = "ctor_probe_remove" /\ UNCHANGED <<exc, raised_in>>
          ELSE raised_in' = "probe_write" /\ Leave(caller, OutputDirExcept(write))
    /\ UNCHANGED <<caller, args, output_dir, dir_exists, files, request, steps,
                   img, output_path, saved_to, returned, exit_code, printed>>

\* line 129: os.remove(test_file); an interrupt can arrive before the
\* file is removed or as os.remove returns
ProbeRemove ==
    /\ pc = "ctor_probe_remove"
    /\ \E remove \in OsOutcomes :
          IF remove = NoExc
          THEN /\ files' = files \ {test_file}
               /\ pc' = "constructed"
               /\ UNCHANGED <<exc, raised_in>>
          ELSE /\ raised_in' = "probe_remove"
               /\ Leave(caller, OutputDirExcept(remove))
               /\ IF isinstance(remove, KeyboardInterrupt)
                  THEN files' \in {files, files \ {test_file}}
                  ELSE UNCHANGED files
    /\ UNCHANGED <<caller, args, output_dir, dir_exists, request, steps, img,
                   output_path, saved_to, returned, exit_code, printed>>

(***************************************************************************)
(* generate_qr_code, one action per pipeline step.  An exception raised in *)
(* a step passes the except clauses of the function the step runs in and   *)
(* then those of generate_qr_code, in the same action.                     *)
(***************************************************************************)
\* line 210: generate_qr_code is entered with the request r.  The
\* logger.info of line 210 is outside the try block of line 212: an
\* interrupt that arrives there leaves the call before any step has
\* started and passes no except clause.
Enter(r) ==
    /\ request' = r
    /\ \E info \in InterruptOutcomes :
          IF info = NoExc
          THEN pc' = "gen_validate" /\ UNCHANGED <<exc, raised_in>>
          ELSE raised_in' = "entry" /\ Leave(caller, info)
    /\ UNCHANGED <<caller, args, output_dir, dir_exists, files, steps, img,
                   output_path, saved_to, returned, exit_code, printed>>

\* a library client calls generate_qr_code.  The model follows one call on
\* a constructed generator: generate_qr_code reads self.output_dir and
\* self.logger and assigns no attribute of self.
ApiGenerate ==
    /\ pc = "constructed"
    /\ caller = "api"
    /\ \E r \in Requests : Enter(r)

\* a failed validation that does not stop the call
GenValidateNoGate ==
    /\ pc = "gen_validate"
    /\ steps' = Append(steps, "validate")
    /\ \E env \in InterruptOutcomes :
          LET e == IF env # NoExc THEN env
                   ELSE Validate(request.data, request.error_correction)
          IN  IF e = NoExc
              THEN pc' = "gen_encode" /\ UNCHANGED <<exc, raised_in>>
              ELSE /\ raised_in' = "validate"
                   /\ exc' = GenerateExcept(e)
                   /\ pc' = "gen_encode"
    /\ UNCHANGED <<caller, args, output_dir, dir_exists, files, request, img,
                   output_path, saved_to, returned, exit_code, printed>>

\* lines 213-222
GenValidate ==
    /\ pc = "gen_validate"
    /\ steps' = Append(steps, "validate")
    /\ \E env \in InterruptOutcomes :
          LET e == IF env # NoExc THEN env
                   ELSE Validate(request.data, request.error_correction)
          IN  IF e = NoExc
              THEN pc' = "gen_encode" /\ UNCHANGED <<exc, raised_in>>
              ELSE raised_in' = "validate" /\ Leave(caller, GenerateExcept(e))
    /\ UNCHANGED <<caller, args, output_dir, dir_exists, files, request, img,
                   output_path, saved_to, returned, exit_code, printed>>

\* lines 224-232: the Symbol Encoder (qrcode.QRCode, add_data, make)
GenEncode ==
    /\ pc = "gen_encode"
    /\ steps' = Append(steps, "encode")
    /\ \E encoder \in EncoderOutcomes :
          IF encoder = NoExc
          THEN pc' = "gen_render" /\ UNCHANGED <<exc, raised_in>>
          ELSE raised_in' = "encode" /\ Leave(caller, GenerateExcept(encoder))
    /\ UNCHANGED <<caller, args, output_dir, dir_exists, files, request, img,
                   output_path, saved_to, returned, exit_code, printed>>

\* lines 234-243: _create_qr_image
GenRender ==
    /\ pc = "gen_render"
    /\ steps' = Append(steps, "render")
    /\ \E debug \in InterruptOutcomes, make_image \in RenderOutcomes :
          LET e == IF debug # NoExc THEN debug
                   ELSE CreateImageRaises(request, make_image)
          IN  IF e = NoExc
              THEN /\ img' = CreateImageReturns(request)
                   /\ pc' = "gen_resolve"
                   /\ UNCHANGED <<exc, raised_in>>
              ELSE /\ raised_in' = "render"
                   /\ Leave(caller, GenerateExcept(CreateImageExcept(e)))
                   /\ UNCHANGED img
    /\ UNCHANGED <<caller, args, output_dir, dir_exists, files, request,
                   output_path, saved_to, returned, exit_code, printed>>

\* the caller's filename ignored
OutputFilenameSynthesized(r) == _generate_filename(r.data, png)

\* line 246
OutputFilename(r) ==
    IF truthy(r.filename) THEN r.filename[1] ELSE _generate_filename(r.data, png)

\* lines 245-247
GenResolve ==
    /\ pc = "gen_resolve"
    /\ steps' = Append(steps, "resolve")
    /\ \E env \in InterruptOutcomes :
          IF env = NoExc
          THEN /\ output_path' = join(output_dir, OutputFilename(request))
               /\ pc' = "gen_save"
               /\ UNCHANGED <<exc, raised_in>>
          ELSE /\ raised_in' = "resolve"
               /\ Leave(caller, GenerateExcept(env))
               /\ UNCHANGED output_path
    /\ UNCHANGED <<caller, args, output_dir, dir_exists, files, request, img,
                   saved_to, returned, exit_code, printed>>

\* lines 249-253: _save_image, then the return.  The logger.debug of line
\* 346 runs before img.save and those of lines 348 and 252 after it, and an
\* interrupt can arrive at each; an interrupted img.save can leave the file
\* behind
GenSave ==
    /\ pc = "gen_save"
    /\ steps' = Append(steps, "persist")
    /\ \E debug \in InterruptOutcomes, save \in OsOutcomes, info \in InterruptOutcomes :
          IF debug # NoExc
          THEN /\ raised_in' = "persist"
               /\ Leave(caller, GenerateExcept(SaveImageExcept(debug)))
               /\ UNCHANGED <<saved_to, files, returned>>
          ELSE /\ saved_to' = Append(saved_to, output_path)
               /\ IF save # NoExc
                  THEN /\ raised_in' = "persist"
                       /\ Leave(caller, GenerateExcept(SaveImageExcept(save)))
                       /\ IF isinstance(save, KeyboardInterrupt)
                          THEN files' \in {files, files \cup {output_path}}
                          ELSE UNCHANGED files
                       /\ UNCHANGED returned
                  ELSE /\ files' = files \cup {output_path}
                       /\ IF info # NoExc
                          THEN /\ raised_in' = "persist"
                               /\ Leave(caller, GenerateExcept(SaveImageExcept(info)))
                               /\ UNCHANGED returned
                          ELSE /\ returned' = Some(output_path)
                               /\ pc' = IF caller = "main" THEN "main_success"
                                        ELSE "done"
                               /\ UNCHANGED <<exc, raised_in>>
    /\ UNCHANGED <<caller, args, output_dir, dir_exists, request, img,
                   output_path, exit_code, printed>>

(***************************************************************************)
(* main.                                                                   *)
(***************************************************************************)
\* the Namespaces parse_arguments can return: data and --interactive are
\* mutually exclusive, the option values are among the declared choices
CliArgs ==
    {a \in [data : {None, Some(<<>>), Some(<<" ">>), Some(<<"a", "/", "b">>)},
            interactive : BOOLEAN,
            filename : {None, Some(<<"k", ".", "p", "n", "g">>)},
            output_dir : {QrCodesDir}, version : {None},
            error_correction : {"L", "H"}, box_size : {10}, border : {4},
            styled : BOOLEAN, drawer : {"rounded", "circle"},
            color : {"radial", "solid"}, foreground : {"black"},
            background : {"white"}, drawer_style : {Unset}, color_mask : {Unset},
            foreground_color : {Unset}, background_color : {Unset}] :
        ~(a.interactive /\ a.data # None)}

\* lines 529-534: parse_arguments and the choice of the mode; argparse ends
\* the process itself (SystemExit, which no except clause of main catches)
\* with status 0 after printing the help for -h and with status 2 on a
\* command line it rejects
ParseArguments ==
    /\ pc = "start"
    /\ caller' = "main"
    /\ \/ \E a \in CliArgs :
             /\ args' = a
             /\ pc' = IF a.interactive \/ ~truthy(a.data)
                      THEN "main_interactive" ELSE "main_ctor"
             /\ UNCHANGED <<exc, raised_in, exit_code, printed>>
       \/ \E status \in {0, 2} :
             /\ exit_code' = Some(status)
             /\ printed' = "usage"
             /\ pc' = "exited"
             /\ UNCHANGED <<args, exc, raised_in>>
       \/ /\ raised_in' = "parse"
          /\ exc' = Raise(KeyboardInterrupt, <<KeyboardInterrupt>>)
          /\ pc' = "main_except"
          /\ UNCHANGED <<args, exit_code, printed>>
    /\ UNCHANGED <<output_dir, dir_exists, files, request, steps, img,
                   output_path, saved_to, returned>>

\* int(s) on the version lines the model types in
IsInt(s) == s \in {"5", "99"}
ParseInt(s) == CASE s = "5" -> 5 [] s = "99" -> 99 [] OTHER -> 0

\* the lines the user types at the prompts of get_interactive_input
TypedInputs ==
    [data_lines : {<< <<"b">> >>, << <<" ">>, <<" ", "a", "/", "b">> >>},
     filename : {<<>>, <<" ", "k">>}, output_dir : {<<>>, <<"o", "/">>},
     version : {"", "5", "x"}, error_correction : {"", "q"},
     styled : {"y", "n"}, drawer_style : {"", "Circle", "triangle"},
     color_mask : {"", "SOLID"}, foreground_color : {"", "Red"},
     background_color : {"WHITE"}]

\* lines 475-479: prompt until a line is not blank
RECURSIVE FirstNonBlank(_)
FirstNonBlank(lines) ==
    IF strip(Head(lines)) # <<>> THEN strip(Head(lines)) ELSE FirstNonBlank(Tail(lines))

\* lines 467-525: the dict get_interactive_input returns; a key the dict
\* does not have is Unset
get_interactive_input(typed) ==
    LET styled == typed.styled \in {"y", "yes"}
        drawer_style == IF Has(MODULE_DRAWERS, lower(typed.drawer_style))
                        THEN lower(typed.drawer_style) ELSE "rounded"
        color_mask == IF Has(COLOR_MASKS, lower(typed.color_mask))
                      THEN lower(typed.color_mask) ELSE "radial"
        solid == styled /\ color_mask = "solid"
    IN  [data |-> FirstNonBlank(typed.data_lines),
         filename |-> IF strip(typed.filename) = <<>> THEN None
                      ELSE Some(strip(typed.filename)),
         output_dir |-> IF strip(typed.output_dir) = <<>> THEN QrCodesDir
                        ELSE strip(typed.output_dir),
         version |-> IF typed.version = "" THEN None
                     ELSE Some(ParseInt(typed.version)),
         error_correction |-> IF Has(ERROR_CORRECTION_MAP, upper(typed.error_correction))
                              THEN upper(typed.error_correction) ELSE "L",
         box_size |-> 10,
         border |-> 4,
         styled |-> styled,
         drawer_style |-> IF styled THEN drawer_style ELSE Unset,
         color_mask |-> IF styled THEN color_mask ELSE Unset,
         foreground_color |-> IF solid THEN lower(typed.foreground_color) ELSE Unset,
         background_color |-> IF solid THEN lower(typed.background_color) ELSE Unset]

\* lines 537-539: every key of the dict is set on the Namespace
Merge(a, inputs) ==
    [a EXCEPT !.data = Some(inputs.data),
              !.filename = inputs.filename,
              !.output_dir = inputs.output_dir,
              !.version = inputs.version,
              !.error_correction = inputs.error_correction,
              !.box_size = inputs.box_size,
              !.border = inputs.border,
              !.styled = inputs.styled,
              !.drawer_style = IF inputs.drawer_style # Unset
                               THEN inputs.drawer_style ELSE @,
              !.color_mask = IF inputs.color_mask # Unset
                             THEN inputs.color_mask ELSE @,
              !.foreground_color = IF inputs.foreground_color # Unset
                                   THEN inputs.foreground_color ELSE @,
              !.background_color = IF inputs.background_color # Unset
                                   THEN inputs.background_color ELSE @]

\* lines 534-539
GetInteractiveInput ==
    /\ pc = "main_interactive"
    /\ \E typed \in TypedInputs, env \in InterruptOutcomes :
          LET e == IF env # NoExc THEN env
                   ELSE IF typed.version # "" /\ ~IsInt(typed.version)
                   THEN Raise(ValueError, <<"invalid literal for int()">>)
                   ELSE NoExc
          IN  IF e = NoExc
              THEN /\ args' = Merge(args, get_interactive_input(typed))
                   /\ pc' = "main_ctor"
                   /\ UNCHANGED <<exc, raised_in>>
              ELSE /\ raised_in' = "interactive"
                   /\ exc' = e
                   /\ pc' = "main_except"
                   /\ UNCHANGED args
    /\ UNCHANGED <<caller, output_dir, dir_exists, files, request, steps, img,
                   output_path, saved_to, returned, exit_code, printed>>

\* line 542
MainConstruct ==
    /\ pc = "main_ctor"
    /\ __init__("main", args.output_dir)
    /\ UNCHANGED args

\* lines 545-557: the arguments main passes to generate_qr_code
MainRequest(a) ==
    [data |-> a.data[1], filename |-> a.filename, version |-> a.version,
     error_correction |-> a.error_correction, box_size |-> a.box_size,
     border |-> a.border, styled |-> a.styled, drawer_style |-> a.drawer,
     color_mask |-> a.color, foreground_color |-> a.foreground,
     background_color |-> a.background]

\* lines 545-557: main calls generate_qr_code
MainGenerate ==
    /\ pc = "constructed"
    /\ caller = "main"
    /\ Enter(MainRequest(args))

\* lines 559-560: the two success messages; main then returns.  An
\* interrupt can arrive during either print, the second one after the
\* first message is out
MainSuccess ==
    /\ pc = "main_success"
    /\ \E first \in InterruptOutcomes, second \in InterruptOutcomes :
          IF first # NoExc
          THEN /\ raised_in' = "print"
               /\ exc' = first
               /\ pc' = "main_except"
               /\ UNCHANGED <<printed, exit_code>>
          ELSE /\ printed' = "Successfully generated QR code"
               /\ IF second # NoExc
                  THEN /\ raised_in' = "print"
                       /\ exc' = second
                       /\ pc' = "main_except"
                       /\ UNCHANGED exit_code
                  ELSE /\ exit_code' = Some(0)
                       /\ pc' = "exited"
                       /\ UNCHANGED <<exc, raised_in>>
    /\ UNCHANGED <<caller, args, output_dir, dir_exists, files, request, steps,
                   img, output_path, saved_to, returned>>

\* lines 562-573: the message and the exit status for the exception e
MainExitFor(e) ==
    IF isinstance(e, InputValidationError) THEN <<"Input error", 1>>
    ELSE IF isinstance(e, QRGenerationError) THEN <<"Generation error", 1>>
    ELSE IF isinstance(e, KeyboardInterrupt) THEN <<"Operation cancelled by user", 0>>
    ELSE IF isinstance(e, Exception) THEN <<"Unexpected error", 1>>
    ELSE <<"none", 1>>

\* lines 562-573: the matching except clause prints its message and then
\* calls sys.exit.  An interrupt that arrives during the print, or after
\* it and before sys.exit, is raised inside the except clause, where no
\* clause of main catches it: the process ends on the uncaught
\* KeyboardInterrupt (status 130), with the message unprinted or printed.
\* An exception no clause matches leaves main uncaught with no message.
\* exc stays the exception that left main's try block.
MainExcept ==
    /\ pc = "main_except"
    /\ pc' = "exited"
    /\ \E env \in InterruptOutcomes, late \in InterruptOutcomes :
          IF MainExitFor(exc)[1] = "none"
          THEN /\ exit_code' = Some(MainExitFor(exc)[2])
               /\ UNCHANGED printed
          ELSE IF env # NoExc
          THEN /\ exit_code' = Some(130)
               /\ UNCHANGED printed
          ELSE /\ printed' = MainExitFor(exc)[1]
               /\ exit_code' = IF late = NoExc THEN Some(MainExitFor(exc)[2])
                                ELSE Some(130)
    /\ UNCHANGED <<caller, args, output_dir, dir_exists, files, request, steps,
                   img, output_path, saved_to, returned, raised_in, exc>>

Next ==
    \/ ApiConstruct
    \/ ParseArguments
    \/ GetInteractiveInput
    \/ MainConstruct
    \/ MakeDirs
    \/ ProbeOpen
    \/ ProbeWrite
    \/ ProbeRemove
    \/ ApiGenerate
    \/ MainGenerate
    \/ GenValidate
    \/ GenEncode
    \/ GenRender
    \/ GenResolve
    \/ GenSave
    \/ MainSuccess
    \/ MainExcept

Spec == Init /\ [][Next]_vars

(***************************************************************************)
(* The Filename Synthesizer on its own: _generate_filename applied to the  *)
(* data and the extension drawn by the initial state.                      *)
(***************************************************************************)
SynthInit ==
    /\ pc = "synth"
    /\ caller = "synth"
    /\ args = NoArgs
    /\ output_dir = <<>>
    /\ dir_exists = FALSE
    /\ files = {}
    /\ request \in [data : SynthData, extension : Extensions]
    /\ steps = <<>>
    /\ img = NoImage
    /\ output_path = <<>>
    /\ saved_to = <<>>
    /\ returned = None
    /\ raised_in = "none"
    /\ exc = NoExc
    /\ exit_code = None
    /\ printed = "none"

Synthesize ==
    /\ pc = "synth"
    /\ returned' = Some(_generate_filename(request.data, request.extension))
    /\ pc' = "done"
    /\ UNCHANGED <<caller, args, output_dir, dir_exists, files, request, steps,
                   img, output_path, saved_to, exc, raised_in, exit_code, printed>>

SynthNext == Synthesize

SpecSynth == SynthInit /\ [][SynthNext]_vars

(***************************************************************************)
(* Properties.                                                             *)
(***************************************************************************)
CtorSteps == {"makedirs", "probe_open", "probe_write", "probe_remove"}
GenSteps == {"validate", "encode", "render", "resolve", "persist"}
Last(seq) == seq[Len(seq)]

\* the request names a drawer style or a colour mask the tables do not have
BadStyle(r) ==
    r.styled /\ (~Has(MODULE_DRAWERS, lower(r.drawer_style))
                 \/ ~Has(COLOR_MASKS, lower(r.color_mask)))

\* C1: when generate_qr_code is called with styled = true and a drawer style
\* or a colour mask outside the enumerated sets, the exception that escapes
\* generate_qr_code is an InputValidationError listing the valid options,
\* propagated as-is (no cause, no wrapping class).
C1_StyleErrorPropagatesAsIs ==
    (raised_in = "render" /\ BadStyle(request) /\ exc.root # KeyboardInterrupt)
        => /\ exc.type = InputValidationError
           /\ exc.cause = "none"
           /\ exc.msg \in {<<"Invalid drawer style", request.drawer_style, "Must be one of">>
                               \o keys(MODULE_DRAWERS),
                           <<"Invalid color mask", request.color_mask, "Must be one of">>
                               \o keys(COLOR_MASKS)}

\* C2: when the operating system rejects the creation of the output directory
\* or the write probe for lack of permission, the constructor fails with the
\* module's PermissionError; for any other OS-level I/O error it fails with a
\* FileSystemError that is not a PermissionError.
C2_CtorPermissionDenied ==
    raised_in \in CtorSteps
        => /\ exc.root = BuiltinPermissionError => exc.type = PermissionError
           /\ exc.root = OSError => exc.type = FileSystemError

\* C3: when the final save fails, the error that escapes generate_qr_code is
\* the module's PermissionError if the OS rejected the write for lack of
\* permission, FileSystemError for any other I/O error, and the base
\* QRGenerationError only for a failure that is neither.
C3_SaveFailureClassified ==
    raised_in = "persist"
        => /\ exc.root = BuiltinPermissionError => exc.type = PermissionError
           /\ exc.root = OSError => exc.type = FileSystemError
           /\ exc.type = QRGenerationError
                  => exc.root \notin {BuiltinPermissionError, OSError}

\* the validation step has run and was not interrupted by the user
Validated == steps # <<>> /\ ~(raised_in = "validate" /\ exc.root = KeyboardInterrupt)

\* C4: generate_qr_code raises InputValidationError when data is empty or
\* only whitespace, and InputValidationError listing the valid levels when
\* error_correction maps to none of L, M, Q, H; in both cases no later step
\* has run (the encoder is not invoked, no file is written), and blank data
\* is reported even when the level is invalid too (the data check is first).
C4_ValidationFailsFirst ==
    /\ (Validated /\ strip(request.data) = <<>>)
          => /\ exc = Raise(InputValidationError, <<"Input data cannot be empty">>)
             /\ steps = <<"validate">>
             /\ saved_to = <<>> /\ files = {qr_generator_log}
    /\ (Validated /\ strip(request.data) # <<>>
          /\ upper(request.error_correction) \notin {"L", "M", "Q", "H"})
          => /\ exc = Raise(InputValidationError,
                            <<"Invalid error correction level",
                              request.error_correction, "Must be one of",
                              "L", "M", "Q", "H">>)
             /\ steps = <<"validate">>
             /\ saved_to = <<>> /\ files = {qr_generator_log}

\* C4 witness: a call with blank data and an invalid level has failed with
\* the error for the data.
C4_Witness ==
    /\ pc = "done" /\ raised_in = "validate"
    /\ request.data = <<" ", "\t">> /\ request.error_correction = "x"
    /\ exc.type = InputValidationError
    /\ exc.msg = <<"Input data cannot be empty">>

\* C5: when the Symbol Encoder reports DataOverflow, generate_qr_code fails
\* with InputValidationError carrying the data-too-large message, whatever the
\* version hint and the error-correction level, and no image is rendered or
\* saved.
C5_OverflowIsInputError ==
    (raised_in = "encode" /\ exc.root = DataOverflowError)
        => /\ exc.type = InputValidationError
           /\ exc.msg = <<"Data too large for QR code">>
           /\ steps = <<"validate", "encode">>
           /\ img = NoImage /\ saved_to = <<>> /\ files = {qr_generator_log}

\* C5 witness: the encoder overflowed on a call with version hint 1 and
\* level H.
C5_Witness ==
    /\ pc = "done" /\ raised_in = "encode" /\ exc.root = DataOverflowError
    /\ request.version = Some(1) /\ request.error_correction = "H"
    /\ request.data = LongData

\* C6: a KeyboardInterrupt raised at any stage of generate_qr_code, on
\* entry (line 210, before the try block) or in any of its steps, escapes
\* it as the same KeyboardInterrupt, never as a QRGenerationError or one of
\* its specializations; no step has started when it is raised on entry,
\* and otherwise the step it was raised in is the last step of the call:
\* no step runs after it and none runs twice.
C6_InterruptPropagates ==
    (raised_in \in GenSteps \cup {"entry"} /\ exc.root = KeyboardInterrupt)
        => /\ exc = Raise(KeyboardInterrupt, <<KeyboardInterrupt>>)
           /\ ~isinstance(exc, QRGenerationError)
           /\ IF raised_in = "entry" THEN steps = <<>> ELSE Last(steps) = raised_in
           /\ steps = SubSeq(<<"validate", "encode", "render", "resolve", "persist">>,
                             1, Len(steps))
           /\ pc \in {"done", "main_except", "exited"}

\* C6 witness: the user interrupted the save inside _save_image and the call
\* has ended.
C6_Witness ==
    /\ pc = "done" /\ raised_in = "persist"
    /\ exc.type = KeyboardInterrupt
    /\ steps = <<"validate", "encode", "render", "resolve", "persist">>

\* C7: once the output-directory check of the constructor has finished, by
\* returning or by raising, the probe file .permission_test does not exist.
C7_ProbeFileRemoved ==
    pc \notin {"ctor_probe_write", "ctor_probe_remove"} => test_file \notin files

\* C8 as claimed: the returned path is the join of the output directory with
\* the caller's filename whenever one was supplied (not None), with the
\* synthesized filename otherwise, and the image was saved to that path.
C8_PathUsesSuppliedFilename ==
    returned # None
        => LET name == IF request.filename # None THEN request.filename[1]
                       ELSE _generate_filename(request.data, png)
           IN  /\ returned = Some(join(output_dir, name))
               /\ saved_to = <<returned[1]>>

\* C8 as amended: the returned path is the join of the output directory with
\* the caller's filename whenever a non-empty filename was supplied, with the
\* synthesized filename of data when the filename is None or empty, and the
\* image was saved to exactly that path.
C8_PathUsesNonEmptyFilename ==
    returned # None
        => LET name == IF request.filename # None /\ request.filename[1] # <<>>
                       THEN request.filename[1]
                       ELSE _generate_filename(request.data, png)
           IN  /\ returned = Some(join(output_dir, name))
               /\ saved_to = <<returned[1]>>
               /\ returned[1] \in files

\* C8 witness: a call with a supplied filename has returned.
C8_Witness ==
    /\ pc = "done" /\ returned # None
    /\ request.filename = Some(<<"k", ".", "p", "n", "g">>)
    /\ output_dir = QrCodesDir

\* a character _generate_filename leaves as it is
Safe(c) == isalnum(c) \/ c = "-" \/ c = "_"

\* C9: _generate_filename(data, ext) is "qr_" + S + "." + ext, where S is the
\* first 50 characters of data with every character that is not alphanumeric,
\* "-" or "_" replaced by "_"; for ext = "png" the result has at most
\* 3 + 50 + 4 characters, all of them alphanumeric, "-", "_" or ".", with
\* exactly one ".".
C9_FilenameShape ==
    pc = "done"
        => LET f == returned[1]
               d == request.data
               e == request.extension
               n == IF Len(d) < 50 THEN Len(d) ELSE 50
           IN  /\ Len(f) = 3 + n + 1 + Len(e)
               /\ SubSeq(f, 1, 3) = <<"q", "r", "_">>
               /\ \A i \in 1..n : f[3 + i] = IF Safe(d[i]) THEN d[i] ELSE "_"
               /\ f[3 + n + 1] = "."
               /\ SubSeq(f, 3 + n + 2, Len(f)) = e
               /\ e = png
                     => /\ Len(f) <= 3 + 50 + 4
                        /\ \A i \in 1..Len(f) : Safe(f[i]) \/ f[i] = "."
                        /\ Cardinality({i \in 1..Len(f) : f[i] = "."}) = 1

\* C9 witness: a filename was synthesized from data of more than 50
\* characters, with characters that are replaced, for the extension png.
C9_Witness ==
    /\ pc = "done"
    /\ Len(request.data) > 50
    /\ \E i \in 1..50 : request.data[i] \in {".", "/", " "}
    /\ request.extension = png
    /\ Len(returned[1]) = 57

\* C10: the process run by main exits with status 0 when generation succeeds,
\* with status 1 when construction or generation raises an error of the
\* taxonomy, and with status 0 after the cancellation message, which no other
\* outcome prints, when the user interrupts it at any point inside main.
\* (An interrupt during the print of one of main's except clauses ends the
\* process with status 130 and no message.)
C10_ExitCodes ==
    pc = "exited"
        => /\ (returned # None /\ exc = NoExc)
                 => exit_code = Some(0) /\ printed = "Successfully generated QR code"
           /\ isinstance(exc, QRGenerationError) => exit_code = Some(1)
           /\ exc.root = KeyboardInterrupt
                 => exit_code = Some(0) /\ printed = "Operation cancelled by user"
           /\ printed = "Operation cancelled by user" => exc.root = KeyboardInterrupt

\* the fixed order of the pipeline steps
StepOrder == <<"validate", "encode", "render", "resolve", "persist">>

\* what holds in every state of a generate_qr_code call
C11_State ==
    /\ steps = SubSeq(StepOrder, 1, Len(steps))
    /\ raised_in \in GenSteps
          => Last(steps) = raised_in /\ pc \in {"done", "main_except", "exited"}
    /\ saved_to # <<>>
          => steps = StepOrder /\ img.kind # "none" /\ Len(saved_to) = 1
    /\ raised_in \in GenSteps \ {"persist"} => saved_to = <<>> /\ returned = None

\* what holds of every step taken during or after a generate_qr_code call
C11_Step ==
    /\ pc \in {"gen_validate", "gen_encode", "gen_render", "gen_resolve"}
          => files' = files /\ saved_to' = saved_to
    /\ raised_in \in GenSteps
          => steps' = steps /\ files' = files /\ saved_to' = saved_to
    /\ steps' # steps => Len(steps') = Len(steps) + 1

\* C11: within one generate_qr_code call the steps run in the order
\* validate, encode, render, resolve output path, persist, each at most once;
\* a failed step is the last one of the call (no later step, no retry); the
\* save is attempted only after validation, encoding and rendering succeeded;
\* and no step before persist, nor anything after a failure, changes the
\* files that exist.
C11_PipelineOrder == [](C11_State) /\ [][C11_Step]_vars

\* C11 witness: a call has failed in the render step, after validate and
\* encode and before any save.
C11_Witness ==
    /\ pc = "done" /\ raised_in = "render"
    /\ steps = <<"validate", "encode", "render">>
    /\ saved_to = <<>> /\ files = {qr_generator_log}

\* C12: in interactive mode, the drawer style, colour mask, foreground
\* colour and background colour that get_interactive_input returned for a
\* styled request (the keys it set on the Namespace) are the values main
\* passes to generate_qr_code.
C12_InteractiveStylePassed ==
    (caller = "main" /\ steps # <<>> /\ args.drawer_style # Unset)
        => /\ request.drawer_style = args.drawer_style
           /\ request.color_mask = args.color_mask
           /\ args.foreground_color # Unset
                 => /\ request.foreground_color = args.foreground_color
                    /\ request.background_color = args.background_color

====
